---- MODULE Spec2Model ----
(***************************************************************************)
(* Model of pixel-map (pixel_map/plotter.py, pixel_map/__main__.py): the   *)
(* aspect-ratio fit of a bounding box and of the axes limits, the panel    *)
(* title, the styled document built from the glyph grid, the bbox option   *)
(* parser of the command line, and the stages of plot_geo_data.            *)
(*                                                                         *)
(* Numbers the code holds in Python floats are rationals <<n, d>> in       *)
(* lowest terms.  Every arithmetic operation of the fit is evaluated in    *)
(* one of two arithmetics, chosen by the variable arith: "exact" (no       *)
(* rounding) and "float" (the result of every operation is rounded to the  *)
(* nearest binary floating-point number of MantBits significant bits,      *)
(* ties to even, as IEEE-754 does with 53 bits).                           *)
(***************************************************************************)
EXTENDS Integers, Sequences, FiniteSets, TLC

\* None, for the variables that hold a tuple otherwise
None == <<>>

\* ------------------------------------------------------------------------
\* Bounds of the model
\* ------------------------------------------------------------------------
MantBits == 4        \* significant bits of the modelled floating point
MaxCoord == 3        \* projected coordinates are drawn from 0..MaxCoord
MaxConsoleWidth == 5    \* console.width is drawn from 3..MaxConsoleWidth
MaxConsoleHeight == 5   \* console.height is drawn from 3..MaxConsoleHeight
MaxFiles == 3        \* at most MaxFiles input files for a title
MaxTitleWidth == 34  \* terminal_width is drawn from 1..MaxTitleWidth
MaxRows == 2         \* a glyph grid has 1..MaxRows rows
MaxCols == 2         \* and 0..MaxCols columns
MaxItems == 5        \* a --bbox value has 1..MaxItems comma-separated items
MaxPipeFiles == 2    \* plot_geo_data gets at most MaxPipeFiles files

\* ------------------------------------------------------------------------
\* Rational numbers
\* ------------------------------------------------------------------------
Abs(n) == IF n < 0 THEN -n ELSE n

RECURSIVE Gcd(_, _)
Gcd(a, b) == IF b = 0 THEN a ELSE Gcd(b, a % b)

Q(n, d) ==
    LET s == IF d < 0 THEN -1 ELSE 1
        g == Gcd(Abs(n), Abs(d))
    IN  <<(s * n) \div g, (s * d) \div g>>

QInt(n) == <<n, 1>>
QAdd(a, b) == Q(a[1] * b[2] + b[1] * a[2], a[2] * b[2])
QSub(a, b) == Q(a[1] * b[2] - b[1] * a[2], a[2] * b[2])
QMul(a, b) == Q(a[1] * b[1], a[2] * b[2])
QDiv(a, b) == Q(a[1] * b[2], a[2] * b[1])
QLt(a, b) == a[1] * b[2] < b[1] * a[2]
QLe(a, b) == a[1] * b[2] <= b[1] * a[2]

RECURSIVE Pow2(_)
Pow2(k) == IF k = 0 THEN 1 ELSE 2 * Pow2(k - 1)

\* n/d > 0 scaled by a power of two into [2^(MantBits-1), 2^MantBits):
\* <<n', d', e>> with n/d = (n'/d') * 2^e.
RECURSIVE Scale(_, _, _)
Scale(n, d, e) ==
    IF n >= d * Pow2(MantBits) THEN Scale(n, 2 * d, e + 1)
    ELSE IF n < d * Pow2(MantBits - 1) THEN Scale(2 * n, d, e - 1)
    ELSE <<n, d, e>>

\* n/d >= 0 rounded to the nearest integer, ties to the even one.
RoundHalfEven(n, d) ==
    LET f == n \div d
        r == 2 * (n % d)
    IN  IF r < d THEN f
        ELSE IF r > d THEN f + 1
        ELSE IF f % 2 = 0 THEN f ELSE f + 1

\* The nearest floating-point number of MantBits significant bits.
RoundFloat(q) ==
    IF q[1] = 0 THEN q
    ELSE LET s == Scale(Abs(q[1]), q[2], 0)
             m == RoundHalfEven(s[1], s[2])
             sign == IF q[1] < 0 THEN -1 ELSE 1
         IN  IF s[3] >= 0 THEN Q(sign * m * Pow2(s[3]), 1)
             ELSE Q(sign * m, Pow2(-s[3]))

Rnd(q, ar) == IF ar = "float" THEN RoundFloat(q) ELSE q

\* The float operators of the code: - + * / and <
Sub(a, b, ar) == Rnd(QSub(a, b), ar)
Add(a, b, ar) == Rnd(QAdd(a, b), ar)
Mul(a, b, ar) == Rnd(QMul(a, b), ar)
Div(a, b, ar) == Rnd(QDiv(a, b), ar)

\* ------------------------------------------------------------------------
\* The ratio fit (plotter.py, _expand_bbox_to_match_ratio and
\* _expand_axes_limit_to_match_ratio).  A box is <<left, bottom, right, top>>.
\* ------------------------------------------------------------------------

\* Mutant: the whole difference as padding on each side (not halved).
FitPadding_NotHalved(box, ratio, ar) ==
    LET width == Sub(box[3], box[1], ar)
        height == Sub(box[4], box[2], ar)
        current_ratio == Div(width, height, ar)
    IN  IF QLt(current_ratio, ratio)
        THEN [axis |-> "x",
              pad |-> Sub(Mul(Div(ratio, current_ratio, ar), width, ar), width, ar)]
        ELSE [axis |-> "y",
              pad |-> Sub(Mul(Div(current_ratio, ratio, ar), height, ar), height, ar)]

\* Lines 198-210 and 221-235: the padding of one fit, as the record
\* [axis |-> "x" or "y", pad |-> the padding].
FitPadding(box, ratio, ar) ==
    LET left == box[1]
        bottom == box[2]
        right == box[3]
        top == box[4]
        width == Sub(right, left, ar)
        height == Sub(top, bottom, ar)
        current_ratio == Div(width, height, ar)
    IN  IF QLt(current_ratio, ratio)
        THEN LET new_width == Mul(Div(ratio, current_ratio, ar), width, ar)
                 width_padding == Div(Sub(new_width, width, ar), QInt(2), ar)
             IN  [axis |-> "x", pad |-> width_padding]
        ELSE LET new_height == Mul(Div(current_ratio, ratio, ar), height, ar)
                 height_padding == Div(Sub(new_height, height, ar), QInt(2), ar)
             IN  [axis |-> "y", pad |-> height_padding]

\* Mutant: the padding goes to the low side only.
ApplyPadding_OneSide(box, p, ar) ==
    IF p.axis = "x"
    THEN <<Sub(box[1], Mul(QInt(2), p.pad, ar), ar), box[2], box[3], box[4]>>
    ELSE <<box[1], Sub(box[2], Mul(QInt(2), p.pad, ar), ar), box[3], box[4]>>

\* Lines 204-205, 209-210 and 227-228, 233-234
ApplyPadding(box, p, ar) ==
    IF p.axis = "x"
    THEN <<Sub(box[1], p.pad, ar), box[2], Add(box[3], p.pad, ar), box[4]>>
    ELSE <<box[1], Sub(box[2], p.pad, ar), box[3], Add(box[4], p.pad, ar)>>

\* The projected box _expand_bbox_to_match_ratio returns, from the projected
\* corners TRANSFORMER.transform gave for the bbox.
expand_bbox_to_match_ratio(corners, ratio, ar) ==
    ApplyPadding(corners, FitPadding(corners, ratio, ar), ar)

\* The limits _expand_axes_limit_to_match_ratio sets and returns.
expand_axes_limit_to_match_ratio(limits, ratio, ar) ==
    ApplyPadding(limits, FitPadding(limits, ratio, ar), ar)

\* Lines 53-63: the cell budget and the ratio of the map.
TerminalWidth(console_width, no_border) ==
    IF no_border THEN console_width ELSE console_width - 2
TerminalHeight(console_height, no_border) ==
    IF no_border THEN console_height - 1 ELSE console_height - 3
MapRatio(terminal_width, terminal_height, ar) ==
    Div(QInt(terminal_width), QInt(terminal_height * 2), ar)

\* ------------------------------------------------------------------------
\* Strings are sequences of one-character strings.
\* ------------------------------------------------------------------------
Digit(d) == <<"0", "1", "2", "3", "4", "5", "6", "7", "8", "9">>[d + 1]

\* str(n) of a natural number
RECURSIVE Str(_)
Str(n) == IF n < 10 THEN <<Digit(n)>> ELSE Str(n \div 10) \o <<Digit(n % 10)>>

\* sep.join(parts)
RECURSIVE Join(_, _)
Join(parts, sep) ==
    IF parts = <<>> THEN <<>>
    ELSE IF Len(parts) = 1 THEN parts[1]
    ELSE parts[1] \o sep \o Join(Tail(parts), sep)

\* s.split(sep) for a one-character separator: always at least one part.
RECURSIVE Split(_, _)
Split(s, sep) ==
    IF \A i \in 1..Len(s) : s[i] # sep THEN <<s>>
    ELSE LET i == CHOOSE j \in 1..Len(s) :
                      s[j] = sep /\ \A k \in 1..(j - 1) : s[k] # sep
         IN  <<SubSeq(s, 1, i - 1)>> \o Split(SubSeq(s, i + 1, Len(s)), sep)

SelectSeqNonEmptyNotDot(parts) ==
    LET Keep(x) == x # <<>> /\ x # <<".">> IN SelectSeq(parts, Keep)

\* Path(f).name: the last component of the path, "" when there is none.
PathName(f) ==
    LET parts == SelectSeqNonEmptyNotDot(Split(f, "/"))
    IN  IF parts = <<>> THEN <<>> ELSE parts[Len(parts)]

\* Path(f).suffix: the last dot of the name and what follows it, when that
\* dot is neither the first nor the last character of the name.
PathSuffix(f) ==
    LET name == PathName(f)
        dots == { i \in 2..(Len(name) - 1) : name[i] = "." }
    IN  IF dots = {} THEN <<>>
        ELSE LET i == CHOOSE j \in dots : \A k \in dots : k <= j
             IN  SubSeq(name, i, Len(name))

\* ------------------------------------------------------------------------
\* The panel title (plotter.py, _generate_panel_title)
\* ------------------------------------------------------------------------
S_file == <<" ", "f", "i", "l", "e">>
S_files == <<" ", "f", "i", "l", "e", "s">>
S_plus == <<" ", "+", " ">>
S_other == <<" ", "o", "t", "h", "e", "r">>
S_comma == <<",", " ">>

\* Lines 264-267
CountTitle(n) == IF n = 1 THEN <<"1">> \o S_file ELSE Str(n) \o S_files

\* Mutant: the plural form also for one file left.
NewTitle_Plural(titles_joined, titles_left) ==
    IF titles_left = 0 THEN titles_joined
    ELSE titles_joined \o S_plus \o Str(titles_left) \o S_other \o S_files

\* Lines 275-281
NewTitle(titles_joined, titles_left) ==
    IF titles_left = 0 THEN titles_joined
    ELSE IF titles_left = 1 THEN titles_joined \o S_plus \o <<"1">> \o S_other \o S_file
    ELSE titles_joined \o S_plus \o Str(titles_left) \o S_other \o S_files

\* Mutant: the whole terminal width as the budget.
TitleBudget_NoMargin(terminal_width) == terminal_width

\* Line 283: the longest title allowed
TitleBudget(terminal_width) == terminal_width - 4

\* Lines 271-286: the loop, from the names already in the title, the names
\* left and the title kept so far.
RECURSIVE TitleLoop(_, _, _, _)
TitleLoop(file_names_in_title, file_names_left, title, terminal_width) ==
    IF file_names_left = <<>> THEN title
    ELSE LET current_file_name == Head(file_names_left)
             in_title == Append(file_names_in_title, current_file_name)
             left == Tail(file_names_left)
             titles_joined == Join(in_title, S_comma)
             new_title == NewTitle(titles_joined, Len(left))
         IN  IF Len(new_title) > TitleBudget(terminal_width)
             THEN title
             ELSE TitleLoop(in_title, left, new_title, terminal_width)

\* Lines 261-288
generate_panel_title(files, terminal_width) ==
    LET file_paths == [i \in 1..Len(files) |-> PathName(files[i])]
    IN  TitleLoop(<<>>, file_paths, CountTitle(Len(file_paths)), terminal_width)

\* ------------------------------------------------------------------------
\* The styled document (plotter.py, _construct_full_rich_string).  A grid is
\* a sequence of rows of equal length; the document is a sequence of styled
\* characters [ch, color, bgcolor], a character being its code point.
\* ------------------------------------------------------------------------
Newline == 10

\* Lines 250-256: result.append(chr(res), style=Style(color=..., bgcolor=...))
StyledCell(res, fg, bg, has_fg_color, has_bg_color) ==
    [ch |-> res,
     color |-> IF has_fg_color THEN fg ELSE None,
     bgcolor |-> IF has_bg_color THEN bg ELSE None]

\* Line 257: result.append("\n")
NewlineCell == [ch |-> Newline, color |-> None, bgcolor |-> None]

\* Mutant: the document is returned with the newline of the last row.
DropLast_Keep(text) == text

\* Line 258: result[:-1]
DropLast(text) == IF text = <<>> THEN <<>> ELSE SubSeq(text, 1, Len(text) - 1)

\* Lines 247-257: one row of the grid and its newline
RowText(characters, foreground_colors, background_colors, y) ==
    LET has_fg_color == foreground_colors # None
        has_bg_color == background_colors # None
    IN  [x \in 1..Len(characters[y]) |->
            StyledCell(characters[y][x],
                       IF has_fg_color THEN foreground_colors[y][x] ELSE None,
                       IF has_bg_color THEN background_colors[y][x] ELSE None,
                       has_fg_color, has_bg_color)]
        \o <<NewlineCell>>

\* Lines 246-257: the rows y..shape[0]
RECURSIVE RowsText(_, _, _, _)
RowsText(characters, foreground_colors, background_colors, y) ==
    IF y > Len(characters) THEN <<>>
    ELSE RowText(characters, foreground_colors, background_colors, y)
         \o RowsText(characters, foreground_colors, background_colors, y + 1)

\* Lines 240-258
construct_full_rich_string(characters, foreground_colors, background_colors) ==
    DropLast(RowsText(characters, foreground_colors, background_colors, 1))

\* ------------------------------------------------------------------------
\* The command line (__main__.py)
\* ------------------------------------------------------------------------
Whitespace == {" "}
Digits == {"0", "1", "2", "3", "4", "5", "6", "7", "8", "9"}

\* x.strip()
RECURSIVE Strip(_)
Strip(s) ==
    IF s = <<>> THEN s
    ELSE IF s[1] \in Whitespace THEN Strip(Tail(s))
    ELSE IF s[Len(s)] \in Whitespace THEN Strip(SubSeq(s, 1, Len(s) - 1))
    ELSE s

Unsigned(s) == IF s # <<>> /\ s[1] \in {"-", "+"} THEN Tail(s) ELSE s

\* Whether float(s) returns (it raises ValueError otherwise), for the
\* decimal literals: an optional sign, digits with at most one point and at
\* least one digit, blanks around them.
FloatParses(s) ==
    LET u == Unsigned(Strip(s))
    IN  /\ \A i \in 1..Len(u) : u[i] \in Digits \cup {"."}
        /\ Cardinality({ i \in 1..Len(u) : u[i] = "." }) <= 1
        /\ \E i \in 1..Len(u) : u[i] \in Digits

DigitValue(c) == CHOOSE d \in 0..9 : Digit(d) = c

\* The digits of u as <<numerator, denominator>>, the point skipped.
RECURSIVE Decimal(_, _, _, _)
Decimal(u, n, d, seen_point) ==
    IF u = <<>> THEN <<n, d>>
    ELSE IF u[1] = "." THEN Decimal(Tail(u), n, d, TRUE)
    ELSE Decimal(Tail(u), 10 * n + DigitValue(u[1]),
                 IF seen_point THEN 10 * d ELSE d, seen_point)

\* float(s), when it parses
FloatValue(s) ==
    LET t == Strip(s)
        v == Decimal(Unsigned(t), 0, 1, FALSE)
    IN  Q(IF t[1] = "-" THEN -v[1] ELSE v[1], v[2])

\* Lines 26-36, BboxGeometryParser.convert: the tuple of floats, or
\* typer.BadParameter (ok = FALSE) when float() raises ValueError.
convert(value) ==
    LET items == Split(value, ",")
    IN  IF \A i \in 1..Len(items) : FloatParses(items[i])
        THEN [ok |-> TRUE, bbox_values |-> [i \in 1..Len(items) |-> FloatValue(items[i])]]
        ELSE [ok |-> FALSE, bbox_values |-> <<>>]

\* Lines 31-36 of plotter.py: the parameters of plot_geo_data, and which of
\* them have a default.
PlotGeoDataParams == <<"files", "renderer", "bbox", "no_border">>
PlotGeoDataDefaults == [bbox |-> None, no_border |-> FALSE]

\* Line 75 of __main__.py: plot_geo_data(files, bbox=bbox), one positional
\* argument and one keyword.
PlotCallPositional(files, bbox) == <<files>>
PlotCallKeywords(files, bbox) == [bbox |-> bbox]

\* Python's binding of a call to plot_geo_data: the parameter names bound,
\* or TypeError when a parameter without a default gets no argument.
BoundNames(positional, keywords) ==
    { PlotGeoDataParams[i] : i \in 1..Len(positional) } \cup DOMAIN keywords
MissingArguments(positional, keywords) ==
    { PlotGeoDataParams[i] : i \in 1..Len(PlotGeoDataParams) }
        \ (BoundNames(positional, keywords) \cup DOMAIN PlotGeoDataDefaults)
\* The arguments plot_geo_data runs with, when none is missing.
BoundArguments(positional, keywords) ==
    [i \in 1..Len(PlotGeoDataParams) |->
        IF i <= Len(positional) THEN positional[i]
        ELSE IF PlotGeoDataParams[i] \in DOMAIN keywords
        THEN keywords[PlotGeoDataParams[i]]
        ELSE PlotGeoDataDefaults[PlotGeoDataParams[i]]]

\* ------------------------------------------------------------------------
\* The loader (plotter.py, _load_geo_data and _read_geoparquet_file).  A read
\* is [filtered, ok]: whether a bbox was passed to it and whether it
\* returned; ok1 and ok2 are what the reads of geopandas do.
\* ------------------------------------------------------------------------
DotParquet == <<".", "p", "a", "r", "q", "u", "e", "t">>

\* Mutant: no except branch, the first failure is raised.
read_geoparquet_file_NoRetry(bbox, ok1, ok2) ==
    [attempts |-> <<[filtered |-> bbox # None, ok |-> ok1]>>, ok |-> ok1]

\* Lines 181-187
read_geoparquet_file(bbox, ok1, ok2) ==
    IF ok1
    THEN [attempts |-> <<[filtered |-> bbox # None, ok |-> TRUE]>>, ok |-> TRUE]
    ELSE [attempts |-> <<[filtered |-> bbox # None, ok |-> FALSE],
                         [filtered |-> FALSE, ok |-> ok2]>>,
          ok |-> ok2]

\* Line 174: gpd.read_file(path, bbox=bbox)
read_file(bbox, ok1) ==
    [attempts |-> <<[filtered |-> bbox # None, ok |-> ok1]>>, ok |-> ok1]

\* Lines 171-175: the read of one path
ReadPath(path, bbox, ok1, ok2) ==
    IF PathSuffix(path) = DotParquet
    THEN read_geoparquet_file(bbox, ok1, ok2)
    ELSE read_file(bbox, ok1)

\* pixel_map.renderers.AVAILABLE_RENDERERS: the registered renderer names
AvailableRenderers == {"block", "braille"}

\* Mutant: an exception of a step is swallowed and the next step runs.
StepResult_Swallow(ok, next) == next

\* Where plot_geo_data goes after a step: an exception leaves the function.
StepResult(ok, next) == IF ok THEN next ELSE "failed"

VARIABLES
    \* the two fits
    arith,            \* the arithmetic the fit is evaluated in
    map_ratio,        \* map_width / map_height
    bbox_corners,     \* projected corners of the bbox given, or None
    bbox_axes_bounds, \* projected box of _expand_bbox_to_match_ratio, or None
    plot_limits,      \* history: the axes limits when the fit of line 107 starts
    ax_limits,        \* the limits of the axes, None before the plot
    extent,           \* what _expand_axes_limit_to_match_ratio returned
    fit_pc,
    \* the panel title
    files,            \* the files argument
    terminal_width,
    title,            \* what _generate_panel_title returned
    title_pc,
    \* the styled document
    characters, foreground_colors, background_colors,
    document,         \* what _construct_full_rich_string returned
    doc_pc,
    \* the command line
    argv,             \* [files, bbox, version]: the arguments of the plot command
    bbox_param,       \* what BboxGeometryParser.convert returned, or None
    plot_call,        \* the names bound by the call of plot_geo_data, {} before
    cli_exit,         \* how the command ended, "" while it runs
    cli_pc,
    \* plot_geo_data
    p_files, p_bbox, p_renderer, p_no_border, console_height,
    next_file,        \* index of the next file _load_geo_data reads
    reads,            \* history: the reads attempted, in order
    clipped,          \* whether clip_by_rect was applied
    stages,           \* history: the stages completed, in order
    failed_at,        \* history: the step that raised, "" when none has
    printed,          \* what console.print has written, in order
    pc

fitVars == <<arith, map_ratio, bbox_corners, bbox_axes_bounds, plot_limits,
             ax_limits, extent, fit_pc>>
titleVars == <<files, terminal_width, title, title_pc>>
docVars == <<characters, foreground_colors, background_colors, document, doc_pc>>
cliVars == <<argv, bbox_param, plot_call, cli_exit, cli_pc>>
pipeVars == <<p_files, p_bbox, p_renderer, p_no_border, console_height,
              next_file, reads, clipped, stages, failed_at, printed, pc>>

vars == <<fitVars, titleVars, docVars, cliVars, pipeVars>>

\* Each specification runs one part of the program; the variables of the
\* other parts keep these values.
IdleFit ==
    /\ arith = "exact" /\ map_ratio = QInt(1) /\ bbox_corners = None
    /\ bbox_axes_bounds = None /\ plot_limits = None /\ ax_limits = None
    /\ extent = None /\ fit_pc = "idle"
IdleTitle ==
    /\ files = <<>> /\ terminal_width = 0 /\ title = <<>> /\ title_pc = "idle"
IdleDoc ==
    /\ characters = <<>> /\ foreground_colors = None /\ background_colors = None
    /\ document = <<>> /\ doc_pc = "idle"
IdleCli ==
    /\ argv = [files |-> <<>>, bbox |-> <<>>, version |-> FALSE]
    /\ bbox_param = None /\ plot_call = {} /\ cli_exit = "" /\ cli_pc = "idle"
IdlePipe ==
    /\ p_files = <<>> /\ p_bbox = None /\ p_renderer = "block"
    /\ p_no_border = FALSE /\ console_height = 0
    /\ next_file = 1 /\ reads = <<>> /\ clipped = FALSE /\ stages = <<>>
    /\ failed_at = "" /\ printed = <<>> /\ pc = "idle"

\* ------------------------------------------------------------------------
\* SpecFit: the two fits as plot_geo_data runs them
\* ------------------------------------------------------------------------
Coords == 0..MaxCoord
Boxes ==
    { <<QInt(l), QInt(b), QInt(r), QInt(t)>> :
        l \in Coords, b \in Coords, r \in Coords, t \in Coords }
ValidBoxes == { x \in Boxes : QLt(x[1], x[3]) /\ QLt(x[2], x[4]) }

\* The ratios a terminal gives: positive cell budgets only (a zero height
\* stops plot_geo_data at line 63, a zero width inside matplotlib).
Ratios(ar) ==
    { MapRatio(TerminalWidth(x[1], x[3]), TerminalHeight(x[2], x[3]), ar) :
        x \in { y \in (3..MaxConsoleWidth) \X (3..MaxConsoleHeight) \X BOOLEAN :
                  /\ TerminalWidth(y[1], y[3]) > 0
                  /\ TerminalHeight(y[2], y[3]) > 0 } }

InitFit ==
    /\ IdleTitle /\ IdleDoc /\ IdleCli /\ IdlePipe
    /\ arith \in {"exact", "float"}
    /\ map_ratio \in Ratios(arith)
    /\ bbox_corners \in ValidBoxes \cup {None}
    /\ bbox_axes_bounds = None
    /\ plot_limits = None
    /\ ax_limits = None
    /\ extent = None
    /\ fit_pc = "bbox"

\* Lines 72-74
CalculateBoundingBox ==
    /\ fit_pc = "bbox"
    /\ bbox_axes_bounds' =
          IF bbox_corners # None
          THEN expand_bbox_to_match_ratio(bbox_corners, map_ratio, arith)
          ELSE None
    /\ fit_pc' = "plot"
    /\ UNCHANGED <<arith, map_ratio, bbox_corners, plot_limits, ax_limits, extent>>
    /\ UNCHANGED <<titleVars, docVars, cliVars, pipeVars>>

\* Mutant: the projected box of the bbox is not applied to the axes.
LimitsAfterPlot_DataOnly(bounds, data_limits) == data_limits

\* Lines 102-105: the limits of the axes after the plot, data_limits being
\* the limits the plot of line 98 left.
LimitsAfterPlot(bounds, data_limits) ==
    IF bounds # None THEN bounds ELSE data_limits

\* Lines 98-105
PlotAndSetLimits ==
    /\ fit_pc = "plot"
    /\ \E data_limits \in ValidBoxes :
          ax_limits' = LimitsAfterPlot(bbox_axes_bounds, data_limits)
    /\ plot_limits' = ax_limits'
    /\ fit_pc' = "axes"
    /\ UNCHANGED <<arith, map_ratio, bbox_corners, bbox_axes_bounds, extent>>
    /\ UNCHANGED <<titleVars, docVars, cliVars, pipeVars>>

\* Line 107
ExpandAxesLimit ==
    /\ fit_pc = "axes"
    /\ extent' = expand_axes_limit_to_match_ratio(ax_limits, map_ratio, arith)
    /\ ax_limits' = extent'
    /\ fit_pc' = "done"
    /\ UNCHANGED <<arith, map_ratio, bbox_corners, bbox_axes_bounds, plot_limits>>
    /\ UNCHANGED <<titleVars, docVars, cliVars, pipeVars>>

NextFit == CalculateBoundingBox \/ PlotAndSetLimits \/ ExpandAxesLimit

SpecFit == InitFit /\ [][NextFit]_vars

BoxWidth(box) == QSub(box[3], box[1])
BoxHeight(box) == QSub(box[4], box[2])
RatioMatches(box, ratio) == BoxWidth(box) = QMul(ratio, BoxHeight(box))
Contains(outer, inner) ==
    /\ QLe(outer[1], inner[1]) /\ QLe(outer[2], inner[2])
    /\ QLe(inner[3], outer[3]) /\ QLe(inner[4], outer[4])
\* new is old padded by one pad >= 0 on both sides of the x axis only
PaddedX(old, new) ==
    /\ new[2] = old[2] /\ new[4] = old[4]
    /\ QSub(old[1], new[1]) = QSub(new[3], old[3])
    /\ QLe(QInt(0), QSub(old[1], new[1]))
PaddedY(old, new) ==
    /\ new[1] = old[1] /\ new[3] = old[3]
    /\ QSub(old[2], new[2]) = QSub(new[4], old[4])
    /\ QLe(QInt(0), QSub(old[2], new[2]))
SameCentre(old, new) ==
    /\ QAdd(old[1], old[3]) = QAdd(new[1], new[3])
    /\ QAdd(old[2], old[4]) = QAdd(new[2], new[4])
OneAxisKept(old, new) ==
    \/ new[2] = old[2] /\ new[4] = old[4]
    \/ new[1] = old[1] /\ new[3] = old[3]

\* C1: in exact arithmetic the projected box of _expand_bbox_to_match_ratio
\* and the limits of _expand_axes_limit_to_match_ratio have
\* width = ratio * height, in the widening and in the heightening branch.
C1_RatioExact ==
    arith = "exact" =>
        /\ bbox_axes_bounds # None => RatioMatches(bbox_axes_bounds, map_ratio)
        /\ extent # None => RatioMatches(extent, map_ratio)

\* C1 witness: the axes fit has widened limits set by the data, exactly.
C1_Witness ==
    /\ arith = "exact" /\ fit_pc = "done" /\ bbox_corners = None
    /\ QLt(extent[1], plot_limits[1])
    /\ RatioMatches(extent, map_ratio)

FittedPairs ==
    (IF bbox_axes_bounds # None THEN {<<bbox_corners, bbox_axes_bounds>>} ELSE {})
    \cup (IF extent # None THEN {<<plot_limits, extent>>} ELSE {})

C9_DoubleFitNoOp ==
    (fit_pc = "done" /\ bbox_axes_bounds # None) => extent = bbox_axes_bounds

\* C9 amended: in exact arithmetic the second fit is a no-op, with a bbox
\* (the extent is the projected box of the bbox fit) and without one
\* (fitting the fitted extent again returns it); in floating point the
\* second fit never shrinks the box of the first.
C9_DoubleFitExact ==
    fit_pc = "done" =>
        /\ bbox_axes_bounds # None => Contains(extent, bbox_axes_bounds)
        /\ arith = "exact" =>
              /\ bbox_axes_bounds # None => extent = bbox_axes_bounds
              /\ expand_axes_limit_to_match_ratio(extent, map_ratio, arith) = extent

\* C9 witness: a bbox fit that padded, followed by an axes fit that did not.
C9_Witness ==
    /\ arith = "exact" /\ fit_pc = "done" /\ bbox_axes_bounds # None
    /\ bbox_axes_bounds # bbox_corners
    /\ extent = bbox_axes_bounds

\* ------------------------------------------------------------------------
\* SpecTitle: _generate_panel_title on the files and the width of line 152
\* ------------------------------------------------------------------------
F_a == <<"a", ".", "g", "p", "k", "g">>
F_b == <<"b", ".", "g", "p", "k", "g">>
F_c == <<"c", ".", "g", "p", "k", "g">>
F_d == <<"d", "/", "e", ".", "p", "a", "r", "q", "u", "e", "t">>
TitleFiles == {F_a, F_b, F_c, F_d}

RECURSIVE SeqsUpTo(_, _)
SeqsUpTo(S, n) ==
    IF n = 0 THEN {<<>>}
    ELSE LET shorter == SeqsUpTo(S, n - 1)
         IN  shorter \cup { Append(q, x) : q \in { r \in shorter : Len(r) = n - 1 }, x \in S }

InitTitle ==
    /\ IdleFit /\ IdleDoc /\ IdleCli /\ IdlePipe
    /\ files \in SeqsUpTo(TitleFiles, MaxFiles)
    /\ terminal_width \in 1..MaxTitleWidth
    /\ title = <<>>
    /\ title_pc = "call"

\* Line 152
GeneratePanelTitle ==
    /\ title_pc = "call"
    /\ title' = generate_panel_title(files, terminal_width)
    /\ title_pc' = "done"
    /\ UNCHANGED <<files, terminal_width>>
    /\ UNCHANGED <<fitVars, docVars, cliVars, pipeVars>>

NextTitle == GeneratePanelTitle

SpecTitle == InitTitle /\ [][NextTitle]_vars

\* The count-only label, as the claims word it
ClaimCountLabel(n) ==
    IF n = 1 THEN <<"1", " ", "f", "i", "l", "e">>
    ELSE Str(n) \o <<" ", "f", "i", "l", "e", "s">>

\* C3 as claimed: the title is never longer than terminal_width - 4.
C3_TitleWithinBudget ==
    title_pc = "done" => Len(title) <= terminal_width - 4

\* C3 amended: the title is never longer than terminal_width - 4 unless it
\* is the count-only label, which is returned whatever its length; for
\* a.gpkg, b.gpkg, c.gpkg and width 20 the title is "3 files".
C3_TitleWithinBudgetOrLabel ==
    title_pc = "done" =>
        /\ Len(title) <= terminal_width - 4 \/ title = ClaimCountLabel(Len(files))
        /\ (files = <<F_a, F_b, F_c>> /\ terminal_width = 20) =>
              title = ClaimCountLabel(3) /\ Len(title) <= 16

\* C3 witness: a title of file names that fills the budget to the last
\* character.
C3_Witness ==
    /\ title_pc = "done" /\ Len(files) = 3
    /\ title # ClaimCountLabel(Len(files))
    /\ Len(title) = terminal_width - 4

\* Candidate k of the claim: the first k basenames joined by ", ", and the
\* files that remain.
ClaimCandidate(names, k) ==
    LET remain == Len(names) - k
        joined == Join(SubSeq(names, 1, k), <<",", " ">>)
    IN  IF remain = 0 THEN joined
        ELSE IF remain = 1
        THEN joined \o <<" ", "+", " ", "1", " ", "o", "t", "h", "e", "r", " ", "f", "i", "l", "e">>
        ELSE joined \o <<" ", "+", " ">> \o Str(remain)
                    \o <<" ", "o", "t", "h", "e", "r", " ", "f", "i", "l", "e", "s">>

ClaimNames == [i \in 1..Len(files) |-> PathName(files[i])]
\* the candidates up to which every candidate fits
ClaimFitting ==
    { k \in 1..Len(files) :
        \A j \in 1..k : Len(ClaimCandidate(ClaimNames, j)) <= terminal_width - 4 }
ClaimLast == CHOOSE k \in ClaimFitting : \A j \in ClaimFitting : j <= k

\* C10: the title is the last candidate before the first one that is longer
\* than terminal_width - 4, and is shorter than that one; it is the
\* count-only label of all the files when the first candidate is too long or
\* there are no files.
C10_GreedyTitle ==
    title_pc = "done" =>
        IF ClaimFitting = {}
        THEN title = ClaimCountLabel(Len(files))
        ELSE /\ title = ClaimCandidate(ClaimNames, ClaimLast)
             /\ ClaimLast < Len(files) =>
                   Len(title) < Len(ClaimCandidate(ClaimNames, ClaimLast + 1))

\* C10 witness: the loop stopped at the second of three candidates, one file
\* being left then.
C10_Witness ==
    /\ title_pc = "done" /\ Len(files) = 3
    /\ ClaimFitting = {1}
    /\ title = ClaimCandidate(ClaimNames, 1)

\* ------------------------------------------------------------------------
\* SpecDoc: _construct_full_rich_string on the arrays of a renderer
\* ------------------------------------------------------------------------
Glyphs == {32, 9608}    \* the code points of " " and of the full block
Black == <<0, 0, 0>>

\* A renderer returns at least one row: the grid has the height of the
\* terminal, and a height of 0 stops plot_geo_data at line 63.
Grids ==
    UNION { [1..r -> [1..c -> Glyphs]] : r \in 1..MaxRows, c \in 0..MaxCols }

\* The colour arrays of the shape of a grid: absent, one colour, or a
\* colour that depends on the cell.
ColourArrays(grid) ==
    { None,
      [y \in 1..Len(grid) |-> [x \in 1..Len(grid[y]) |-> Black]],
      [y \in 1..Len(grid) |-> [x \in 1..Len(grid[y]) |-> <<y, x, 255>>]] }

InitDoc ==
    /\ IdleFit /\ IdleTitle /\ IdleCli /\ IdlePipe
    /\ characters \in Grids
    /\ foreground_colors \in ColourArrays(characters)
    /\ background_colors \in ColourArrays(characters)
    /\ document = <<>>
    /\ doc_pc = "call"

\* Lines 142-144
ConstructFullRichString ==
    /\ doc_pc = "call"
    /\ document' = construct_full_rich_string(characters, foreground_colors,
                                              background_colors)
    /\ doc_pc' = "done"
    /\ UNCHANGED <<characters, foreground_colors, background_colors>>
    /\ UNCHANGED <<fitVars, titleVars, cliVars, pipeVars>>

NextDoc == ConstructFullRichString

SpecDoc == InitDoc /\ [][NextDoc]_vars

\* The lines of a document: what the newline characters separate.
RECURSIVE DocLines(_)
DocLines(text) ==
    IF \A i \in 1..Len(text) : text[i].ch # 10 THEN <<text>>
    ELSE LET i == CHOOSE j \in 1..Len(text) :
                      text[j].ch = 10 /\ \A k \in 1..(j - 1) : text[k].ch # 10
         IN  <<SubSeq(text, 1, i - 1)>> \o DocLines(SubSeq(text, i + 1, Len(text)))

\* C4: the document of an R x C grid has exactly R lines, line y holding
\* exactly the C glyphs of row y in order, each with the colours of its cell
\* (none where the colour array is absent).
C4_DocumentShape ==
    doc_pc = "done" =>
        LET lines == DocLines(document)
        IN  /\ Len(lines) = Len(characters)
            /\ \A y \in 1..Len(characters) :
                  /\ Len(lines[y]) = Len(characters[y])
                  /\ \A x \in 1..Len(characters[y]) :
                        /\ lines[y][x].ch = characters[y][x]
                        /\ lines[y][x].color =
                              IF foreground_colors = None THEN <<>>
                              ELSE foreground_colors[y][x]
                        /\ lines[y][x].bgcolor =
                              IF background_colors = None THEN <<>>
                              ELSE background_colors[y][x]

\* C4 witness: a 2 x 2 grid with foreground colours only, as 5 characters.
C4_Witness ==
    /\ doc_pc = "done"
    /\ Len(characters) = 2 /\ Len(characters[1]) = 2
    /\ foreground_colors # None /\ background_colors = None
    /\ Len(document) = 5 /\ document[3].ch = 10

\* ------------------------------------------------------------------------
\* SpecCli: the plot command, from its arguments to the call of
\* plot_geo_data
\* ------------------------------------------------------------------------
BboxItems == { <<"1">>, <<" ", "-", "2", ".", "5", " ">>, <<"x">>, <<>> }
BboxValues ==
    { Join(items, <<",">>) : items \in SeqsUpTo(BboxItems, MaxItems) \ {<<>>} }

InitCli ==
    /\ IdleFit /\ IdleTitle /\ IdleDoc /\ IdlePipe
    /\ argv \in [files : SeqsUpTo({F_a, F_d}, 1),
                 bbox : {<<>>} \cup { <<v>> : v \in BboxValues },
                 version : BOOLEAN]
    /\ bbox_param = None
    /\ plot_call = {}
    /\ cli_exit = ""
    /\ cli_pc = "parse"

\* Lines 15-18 and 59-67: the eager --version option
VersionCallback ==
    /\ cli_pc = "parse"
    /\ argv.version
    /\ cli_exit' = "version"
    /\ cli_pc' = "exit"
    /\ UNCHANGED <<argv, bbox_param, plot_call>>
    /\ UNCHANGED <<fitVars, titleVars, docVars, pipeVars>>

\* Lines 40-58: the parameters of the command are converted; a value of
\* --bbox goes through BboxGeometryParser.convert, FILES needs one file.
ParseArguments ==
    /\ cli_pc = "parse"
    /\ ~argv.version
    /\ LET given == argv.bbox # <<>>
           conv == IF given THEN convert(argv.bbox[1])
                   ELSE [ok |-> TRUE, bbox_values |-> None]
       IN  IF ~conv.ok
           THEN /\ cli_exit' = "BadParameter"
                /\ cli_pc' = "exit"
                /\ bbox_param' = None
           ELSE IF argv.files = <<>>
           THEN /\ cli_exit' = "MissingArgument"
                /\ cli_pc' = "exit"
                /\ bbox_param' = conv.bbox_values
           ELSE /\ cli_exit' = ""
                /\ cli_pc' = "plot"
                /\ bbox_param' = conv.bbox_values
    /\ UNCHANGED <<argv, plot_call>>
    /\ UNCHANGED <<fitVars, titleVars, docVars, pipeVars>>

\* Lines 69-75: plot calls plot_geo_data(files, bbox=bbox)
Plot ==
    /\ cli_pc = "plot"
    /\ LET positional == PlotCallPositional(argv.files, bbox_param)
           keywords == PlotCallKeywords(argv.files, bbox_param)
       IN  IF MissingArguments(positional, keywords) # {}
           THEN /\ cli_exit' = "TypeError"
                /\ plot_call' = {}
           ELSE /\ cli_exit' = "plot_geo_data"
                /\ plot_call' = {BoundArguments(positional, keywords)}
    /\ cli_pc' = "exit"
    /\ UNCHANGED <<argv, bbox_param>>
    /\ UNCHANGED <<fitVars, titleVars, docVars, pipeVars>>

NextCli == VersionCallback \/ ParseArguments \/ Plot

SpecCli == InitCli /\ [][NextCli]_vars

\* C5: a --bbox value is accepted only when it is exactly 4 parseable
\* floats; every other value ends in the bad-parameter error.
C5_BboxOnlyFourFloats ==
    (cli_pc = "plot" /\ argv.bbox # <<>>) => Len(bbox_param) = 4

\* C6: the plot command with files and no renderer selection runs
\* plot_geo_data with the renderer "block" and the border on.
C6_PlotRunsDefaultRenderer ==
    (cli_pc = "exit" /\ ~argv.version /\ argv.files # <<>>
        /\ cli_exit # "BadParameter") =>
        /\ cli_exit = "plot_geo_data"
        /\ plot_call # {}
        /\ \A c \in plot_call : c[2] = "block" /\ c[4] = FALSE

\* ------------------------------------------------------------------------
\* SpecPipe: plot_geo_data, step by step.  The calls into geopandas,
\* matplotlib, contextily and the renderer return or raise (ok).
\* ------------------------------------------------------------------------
PipeBboxes == {None, <<0, 0, 1, 1>>, <<0, 0, 1>>}

InitPipe ==
    /\ IdleFit /\ IdleTitle /\ IdleDoc /\ IdleCli
    /\ p_files \in SeqsUpTo({F_a, F_d}, MaxPipeFiles)
    /\ p_bbox \in PipeBboxes
    /\ p_renderer \in AvailableRenderers \cup {"ascii"}
    /\ p_no_border \in BOOLEAN
    /\ console_height \in {3, MaxConsoleHeight}
    /\ next_file = 1
    /\ reads = <<>>
    /\ clipped = FALSE
    /\ stages = <<>>
    /\ failed_at = ""
    /\ printed = <<>>
    /\ pc = "setup"

\* What a step leaves: the next step and the stage completed, or the failure.
Step(name, ok, next, stage) ==
    /\ pc' = StepResult(ok, next)
    /\ stages' = IF ok /\ stage # "" THEN Append(stages, stage) ELSE stages
    /\ failed_at' = IF ok THEN failed_at ELSE name

\* Lines 51-63: map_width / map_height divides by zero for a height of 0
Setup ==
    /\ pc = "setup"
    /\ Step("setup", TerminalHeight(console_height, p_no_border) * 2 # 0, "bbox", "")
    /\ UNCHANGED <<p_files, p_bbox, p_renderer, p_no_border, console_height,
                   next_file, reads, clipped, printed>>
    /\ UNCHANGED <<fitVars, titleVars, docVars, cliVars>>

\* Lines 65-74: the bbox fit, when a bbox is given; line 193 unpacks 4 values
StepCalculateBbox ==
    /\ pc = "bbox"
    /\ IF p_bbox # None
       THEN Step("bbox fit", Len(p_bbox) = 4, "load", "bbox fit")
       ELSE Step("bbox fit", TRUE, "load", "")
    /\ UNCHANGED <<p_files, p_bbox, p_renderer, p_no_border, console_height,
                   next_file, reads, clipped, printed>>
    /\ UNCHANGED <<fitVars, titleVars, docVars, cliVars>>

\* Lines 168-178: one path of the list comprehension of _load_geo_data
StepLoadFile ==
    /\ pc = "load"
    /\ next_file <= Len(p_files)
    /\ \E ok1 \in BOOLEAN, ok2 \in BOOLEAN :
          LET r == ReadPath(p_files[next_file], p_bbox, ok1, ok2)
          IN  /\ reads' = reads \o
                     [i \in 1..Len(r.attempts) |->
                         [file |-> next_file,
                          filtered |-> r.attempts[i].filtered,
                          ok |-> r.attempts[i].ok]]
              /\ next_file' = IF r.ok THEN next_file + 1 ELSE next_file
              /\ Step("read", r.ok, "load", "")
    /\ UNCHANGED <<p_files, p_bbox, p_renderer, p_no_border, console_height,
                   clipped, printed>>
    /\ UNCHANGED <<fitVars, titleVars, docVars, cliVars>>

\* Lines 169 and 84-85: the concatenation (it raises for no file) and the clip
StepConcatAndClip ==
    /\ pc = "load"
    /\ next_file > Len(p_files)
    /\ Step("concat", p_files # <<>>, "plot", "geometry load")
    /\ clipped' = (p_files # <<>> /\ p_bbox # None)
    /\ UNCHANGED <<p_files, p_bbox, p_renderer, p_no_border, console_height,
                   next_file, reads, printed>>
    /\ UNCHANGED <<fitVars, titleVars, docVars, cliVars>>

\* Lines 94-100: the figure, and the geometries plotted on its axes
StepPlotGeometries ==
    /\ pc = "plot"
    /\ \E ok \in BOOLEAN : Step("plot", ok, "axes", "geometry plot")
    /\ UNCHANGED <<p_files, p_bbox, p_renderer, p_no_border, console_height,
                   next_file, reads, clipped, printed>>
    /\ UNCHANGED <<fitVars, titleVars, docVars, cliVars>>

\* Lines 102-107: the limits of the bbox, and the axes fit
StepAxesFit ==
    /\ pc = "axes"
    /\ Step("axes fit", TRUE, "basemap", "axes fit")
    /\ UNCHANGED <<p_files, p_bbox, p_renderer, p_no_border, console_height,
                   next_file, reads, clipped, printed>>
    /\ UNCHANGED <<fitVars, titleVars, docVars, cliVars>>

\* Lines 114-119: the tiles of the basemap
StepBasemap ==
    /\ pc = "basemap"
    /\ \E ok \in BOOLEAN : Step("basemap", ok, "draw", "")
    /\ UNCHANGED <<p_files, p_bbox, p_renderer, p_no_border, console_height,
                   next_file, reads, clipped, printed>>
    /\ UNCHANGED <<fitVars, titleVars, docVars, cliVars>>

\* Lines 126-129: the canvas drawn into the pixel buffer
StepDrawCanvas ==
    /\ pc = "draw"
    /\ \E ok \in BOOLEAN : Step("draw", ok, "render", "raster render")
    /\ UNCHANGED <<p_files, p_bbox, p_renderer, p_no_border, console_height,
                   next_file, reads, clipped, printed>>
    /\ UNCHANGED <<fitVars, titleVars, docVars, cliVars>>

\* Lines 138-141: the renderer looked up by name, and its glyphs
StepRenderGlyphs ==
    /\ pc = "render"
    /\ \E ok \in BOOLEAN :
          Step("render", ok /\ p_renderer \in AvailableRenderers, "construct", "")
    /\ UNCHANGED <<p_files, p_bbox, p_renderer, p_no_border, console_height,
                   next_file, reads, clipped, printed>>
    /\ UNCHANGED <<fitVars, titleVars, docVars, cliVars>>

\* Lines 142-144
StepConstructString ==
    /\ pc = "construct"
    /\ Step("construct", TRUE, "print", "glyph composite")
    /\ UNCHANGED <<p_files, p_bbox, p_renderer, p_no_border, console_height,
                   next_file, reads, clipped, printed>>
    /\ UNCHANGED <<fitVars, titleVars, docVars, cliVars>>

\* Lines 146-162: the document, bare or in the panel
StepPrint ==
    /\ pc = "print"
    /\ printed' = Append(printed, IF p_no_border THEN "document" ELSE "panel")
    /\ Step("print", TRUE, "done", "print")
    /\ UNCHANGED <<p_files, p_bbox, p_renderer, p_no_border, console_height,
                   next_file, reads, clipped>>
    /\ UNCHANGED <<fitVars, titleVars, docVars, cliVars>>

NextPipe ==
    \/ Setup
    \/ StepCalculateBbox
    \/ StepLoadFile
    \/ StepConcatAndClip
    \/ StepPlotGeometries
    \/ StepAxesFit
    \/ StepBasemap
    \/ StepDrawCanvas
    \/ StepRenderGlyphs
    \/ StepConstructString
    \/ StepPrint

SpecPipe == InitPipe /\ [][NextPipe]_vars

IsPrefix(a, b) == Len(a) <= Len(b) /\ a = SubSeq(b, 1, Len(a))
WithoutStage(seq, stage) == LET Keep(x) == x # stage IN SelectSeq(seq, Keep)
BboxStage == IF p_bbox # None THEN <<"bbox fit">> ELSE <<>>

\* The order of the claim, and the order with the axes fit inside the
\* raster render
ClaimedOrder ==
    BboxStage \o <<"geometry load", "raster render", "axes fit",
                   "glyph composite", "print">>
FoundOrder ==
    BboxStage \o <<"geometry load", "geometry plot", "axes fit", "raster render",
                   "glyph composite", "print">>

NothingPartial ==
    /\ Len(printed) <= 1
    /\ pc = "failed" => printed = <<>> /\ ~ENABLED NextPipe

\* C7 as claimed: the stages complete in the order bbox fit (with a bbox),
\* geometry load, raster render, axes fit, glyph composite, then the print;
\* a failure stops the pipeline and nothing is printed.
C7_ClaimedStageOrder ==
    /\ IsPrefix(WithoutStage(stages, "geometry plot"), ClaimedOrder)
    /\ printed # <<>> => WithoutStage(stages, "geometry plot") = ClaimedOrder
    /\ NothingPartial

\* C7 amended: the axes fit runs after the geometries are plotted and before
\* the canvas is drawn into the pixel buffer; the rest as claimed.
C7_StageOrder ==
    /\ IsPrefix(stages, FoundOrder)
    /\ printed # <<>> => stages = FoundOrder
    /\ NothingPartial

\* C7 witness: a run with a bbox that printed the panel.
C7_Witness ==
    /\ pc = "done" /\ p_bbox # None /\ printed = <<"panel">>
    /\ stages = FoundOrder

IsParquet(i) == PathSuffix(p_files[reads[i].file]) = <<".", "p", "a", "r", "q", "u", "e", "t">>
Retried(i) ==
    /\ i < Len(reads)
    /\ reads[i + 1].file = reads[i].file
    /\ ~reads[i + 1].filtered
Aborted(i) == i = Len(reads) /\ pc = "failed" /\ failed_at = "read"
ReadsOf(f) == { i \in 1..Len(reads) : reads[i].file = f }
ClippedAfterLoad ==
    ("geometry load" \in { stages[k] : k \in 1..Len(stages) } /\ p_bbox # None)
        => clipped

\* C8 as claimed: whatever the format, a failed bbox-filtered read is
\* retried once without the filter and not surfaced, the geometries are
\* clipped afterwards, and a failed unfiltered read aborts the pipeline.
C8_AnyFormatRetried ==
    /\ \A i \in 1..Len(reads) :
          /\ (reads[i].filtered /\ ~reads[i].ok) => Retried(i)
          /\ (~reads[i].filtered /\ ~reads[i].ok /\ p_bbox # None) => Aborted(i)
    /\ failed_at = "read" => ~reads[Len(reads)].filtered
    /\ ClippedAfterLoad

\* C8 amended: for a .parquet file a failed first read is retried once
\* without the bbox and not surfaced, and a failed retry aborts; for any
\* other file the one read is not retried and its failure aborts; with a
\* bbox the geometries are clipped after the load.
C8_ParquetRetried ==
    /\ \A i \in 1..Len(reads) :
          LET first == \A j \in ReadsOf(reads[i].file) : i <= j
          IN  /\ Cardinality(ReadsOf(reads[i].file)) <= (IF IsParquet(i) THEN 2 ELSE 1)
              /\ reads[i].filtered = (first /\ p_bbox # None)
              /\ (~reads[i].ok /\ first /\ IsParquet(i)) => Retried(i)
              /\ (~reads[i].ok /\ ~(first /\ IsParquet(i))) => Aborted(i)
              /\ (reads[i].ok /\ ~first) => ~(Aborted(i))
    /\ failed_at = "read" => ~reads[Len(reads)].ok
    /\ ClippedAfterLoad

\* C8 witness: the filtered read of a .parquet file failed, the retry
\* returned, and the clipped map was printed.
C8_Witness ==
    /\ pc = "done" /\ clipped
    /\ \E i \in 1..Len(reads) :
          IsParquet(i) /\ reads[i].filtered /\ ~reads[i].ok /\ Retried(i)
          /\ reads[i + 1].ok

====
